---- MODULE Spec2Model ----
(***************************************************************************)
(* slipstream: NAT traversal through a SIP ALG.                            *)
(*                                                                         *)
(* Two programs are modelled.  The Responder (startSIPServer and its       *)
(* per-connection handler) accepts TCP connections, reads one SIP message  *)
(* up to the blank line, echoes its Via and Contact in a 200 OK and dials  *)
(* the address found in the Contact.  The Initiator (main, setupListener,  *)
(* sendRequest) listens on its local port and sends the REGISTER.          *)
(*                                                                         *)
(* The repository holds two versions of the program: src/main.go, whose    *)
(* handler is the function handleConnection, and src/unnamed/part_000,     *)
(* whose handler is the anonymous goroutine of startSIPServer.  The        *)
(* variable build says which one the Responder process runs.               *)
(*                                                                         *)
(* Bytes are TLA+ strings; Len, SubSeq, Tail and \o act on them as on      *)
(* sequences of bytes.                                                     *)
(***************************************************************************)
EXTENDS Integers, Sequences, FiniteSets, TLC

VARIABLES
    build,      \* which version the Responder runs: "main" or "part000"
    sipPort,    \* the Responder's -lp flag
    cfg,        \* the Initiator's flags: host, localIP, localPort, remotePort
    srv,        \* the Responder process: "start", "listening", "crashed", "usage"
                \* (os.Exit(1) after the flag check), "exit1" (log.Fatal)
    conns,      \* TCP connections made to the Responder's port
    hs,         \* one handler goroutine per accepted connection
    mainPc,     \* the Initiator's main goroutine; "fatal" is log.Fatal(err) after
                \* sendRequest returned an error, "usage" is os.Exit(1) after a
                \* flag check, "exit1" is log.Fatal in setupListener
    lnPc,       \* the Initiator's setupListener goroutine
    backlog,    \* callback connections established to the Initiator's listener, oldest first
    lnConn,     \* the callback connection setupListener accepted (handler id), 0 if none
    line,       \* what reader.ReadString returned in setupListener
    reqConn,    \* the connection sendRequest dialed: 0 if none, else its id in conns
    reqWrites   \* the write calls sendRequest issued on it, in order

vars == <<build, sipPort, cfg, srv, conns, hs, mainPc, lnPc, backlog, lnConn,
          line, reqConn, reqWrites>>

----------------------------------------------------------------------------
(* Bounds *)

MaxExt == 1        \* clients of the Responder other than the Initiator
CutWindow == 1     \* a delivered chunk ends within this many bytes of the
                   \* start or of the end of what the peer has sent
MaxFrameLen == 6   \* longest byte stream of FrameStreams

MaxConns == MaxExt + 1   \* connections the Responder's port receives in one run

ConnIds == 1..MaxConns

Min(S) == CHOOSE n \in S : \A m \in S : n <= m

----------------------------------------------------------------------------
(* Message templates *)

\* A variant with the two substituted fields exchanged.
sipResponse_Swapped(Via, Contact) ==
    "SIP/2.0 200 OK\r\n" \o
    Contact \o ";received=0.0.0.0\r\n" \o
    "From: <sip:wuzzi@example.org;transport=TCP>;tag=U7c3d519\r\n" \o
    "To: <sip:wuzzi@example.org;transport=TCP>;tag=37GkEhwl6\r\n" \o
    "Call-ID: aaaaaaaaaaaaaaaaa0404aaaaaaaaaaaabbbbbbZjQ4M2M.\r\n" \o
    "CSeq: 1 REGISTER\r\n" \o
    Via \o ";expires=3600\r\n" \o
    "Content-Length: 0\r\n" \o
    "\r\n"

sipResponse(Via, Contact) ==
    "SIP/2.0 200 OK\r\n" \o
    Via \o ";received=0.0.0.0\r\n" \o
    "From: <sip:wuzzi@example.org;transport=TCP>;tag=U7c3d519\r\n" \o
    "To: <sip:wuzzi@example.org;transport=TCP>;tag=37GkEhwl6\r\n" \o
    "Call-ID: aaaaaaaaaaaaaaaaa0404aaaaaaaaaaaabbbbbbZjQ4M2M.\r\n" \o
    "CSeq: 1 REGISTER\r\n" \o
    Contact \o ";expires=3600\r\n" \o
    "Content-Length: 0\r\n" \o
    "\r\n"

sipRequest(LocalIP, LocalPort, RemotePort) ==
    "REGISTER sip:example.org;transport=TCP SIP/2.0\r\n" \o
    "Via: SIP/2.0/TCP " \o LocalIP \o ":" \o RemotePort \o ";branch=I9hG4bK-d8754z-c2ac7de1b3ce90f7-1---d8754z-;rport;transport=TCP\r\n" \o
    "Max-Forwards: 70\r\n" \o
    "Contact: <sip:wuzzi@" \o LocalIP \o ":" \o LocalPort \o ";rinstance=v40f3f83b335139c;transport=TCP>\r\n" \o
    "To: <sip:wuzzi@example.org;transport=TCP>\r\n" \o
    "From: <sip:wuzzi@example.org;transport=TCP>;tag=U7c3d519\r\n" \o
    "Call-ID: aaaaaaaaaaaaaaaaa0404aaaaaaaaaaaabbbbbbZjQ4M2M.\r\n" \o
    "CSeq: 1 REGISTER\r\n" \o
    "Expires: 60\r\n" \o
    "Allow: REGISTER, INVITE, ACK, CANCEL, BYE, NOTIFY, REFER, MESSAGE, OPTIONS, INFO, SUBSCRIBE\r\n" \o
    "Supported: replaces, norefersub, extended-refer, timer, X-cisco-serviceuri\r\n" \o
    "Allow-Events: presence, kpml\r\n" \o
    "Content-Length: 0\r\n" \o
    "\r\n"

----------------------------------------------------------------------------
(* Header extraction: the three regular expressions.  Go's regexp returns   *)
(* the leftmost match and its repetitions are greedy.                      *)

\* A variant whose match runs to the end of the buffer: (?s)Tok.+
FindHeader_ToEnd(tok, data) ==
    LET n == Len(data)
        k == Len(tok)
        Starts == {i \in 1..n : /\ i + k <= n
                                /\ SubSeq(data, i, i + k - 1) = tok}
    IN IF Starts = {} THEN "" ELSE SubSeq(data, Min(Starts), n)

\* Tok[^\r]+ : the leftmost place where Tok is followed by a byte other than
\* CR, extended to just before the next CR or to the end of the buffer.
\* "" stands for the nil slice of a failed Find.
FindHeader(tok, data) ==
    LET n == Len(data)
        k == Len(tok)
        Starts == {i \in 1..n : /\ i + k <= n
                                /\ SubSeq(data, i, i + k - 1) = tok
                                /\ SubSeq(data, i + k, i + k) # "\r"}
    IN IF Starts = {} THEN ""
       ELSE LET i == Min(Starts)
                Stops == {j \in (i + k)..n : SubSeq(data, j, j) = "\r"}
                e == IF Stops = {} THEN n ELSE Min(Stops) - 1
            IN SubSeq(data, i, e)

extractContact(data) == FindHeader("Contact:", data)

extractVia(data) == FindHeader("Via:", data)

\* A variant whose capture group stops at a colon as well: @([^;:]+).
extractCallback_StopAtColon(contact) ==
    LET n == Len(contact)
        Starts == {i \in 1..n : /\ i + 1 <= n
                                /\ SubSeq(contact, i, i) = "@"
                                /\ SubSeq(contact, i + 1, i + 1) \notin {";", ":"}}
    IN IF Starts = {} THEN <<>>
       ELSE LET i == Min(Starts)
                Stops == {j \in (i + 1)..n : SubSeq(contact, j, j) \in {";", ":"}}
                e == IF Stops = {} THEN n ELSE Min(Stops) - 1
            IN <<SubSeq(contact, i, e), SubSeq(contact, i + 1, e)>>

\* @(?P<callback>[^;]+) with FindSubmatch: <<>> for no match, else the whole
\* match followed by the capture group.
extractCallback(contact) ==
    LET n == Len(contact)
        Starts == {i \in 1..n : /\ i + 1 <= n
                                /\ SubSeq(contact, i, i) = "@"
                                /\ SubSeq(contact, i + 1, i + 1) # ";"}
    IN IF Starts = {} THEN <<>>
       ELSE LET i == Min(Starts)
                Stops == {j \in (i + 1)..n : SubSeq(contact, j, j) = ";"}
                e == IF Stops = {} THEN n ELSE Min(Stops) - 1
            IN <<SubSeq(contact, i, e), SubSeq(contact, i + 1, e)>>

----------------------------------------------------------------------------
(* The read loop of the handler *)

\* A variant of the test that looks at the last two bytes only.
Terminated_LastTwo(ds, read) ==
    read > 1 /\ SubSeq(ds, read - 1, read) = "\r\n"

\* The test made after each byte is appended: the buffer is the first read
\* bytes of ds.
Terminated(ds, read) ==
    read > 3 /\ SubSeq(ds, read - 3, read) = "\r\n\r\n"

\* The loop run over the bytes that are available.  Each iteration appends
\* one byte and breaks if Terminated holds of the buffer, so the loop stops
\* at the first length at which the test succeeds; with no such length it
\* takes every byte and the next Read blocks.
ReadLoop(data, avail) ==
    LET all == data \o avail
        Breaks == {n \in (Len(data) + 1)..Len(all) : Terminated(all, n)}
    IN IF Breaks = {} THEN [data |-> all, brk |-> FALSE]
       ELSE [data |-> SubSeq(all, 1, Min(Breaks)), brk |-> TRUE]

----------------------------------------------------------------------------
(* The network the two programs run in *)

ResponderHost == "203.0.113.9"   \* the name under which the Responder is reached

\* The address setupListener's socket is reached at.  No ALG or NAT stands
\* between the two programs here, so it is the address the Contact advertises.
InitiatorAddr == cfg.localIP \o ":" \o cfg.localPort

\* conn.RemoteAddr() of an inbound connection: the source address of the dial,
\* an ephemeral port of the peer.
RemoteAddr(c) ==
    IF conns[c].from = "init" THEN cfg.localIP \o ":49152" ELSE "192.0.2.55:49153"

NoConn == [from |-> "none", stream |-> "", closed |-> FALSE]

NoHandler == [pc |-> "idle", data |-> "", split |-> FALSE, framed |-> FALSE,
              contact |-> "", via |-> "",
              writes |-> <<>>, werr |-> FALSE, open |-> FALSE,
              dialed |-> FALSE, target |-> "", c2 |-> "none", c2sent |-> ""]

FreeIds == {c \in ConnIds : conns[c].from = "none"}

\* The places where a chunk delivered to a handler that holds pos bytes can
\* end: within w bytes of either end of the stream.
Cuts(stream, pos, w) ==
    {n \in (pos + 1)..Len(stream) : n <= w \/ n >= Len(stream) - w}

\* The listening socket of setupListener is open.
ListenerBound == lnPc \in {"accept", "read"}

\* The Responder's end of a callback connection is closed: by the handler's
\* deferred Close, or by the death of the process.
C2Closed(h) == hs[h].c2 = "closed" \/ srv = "crashed"

----------------------------------------------------------------------------
(* Initial states *)

GoodCfg == [host |-> ResponderHost, localIP |-> "10.0.0.2",
            localPort |-> "7001", remotePort |-> "5060"]

Cfgs == {GoodCfg, [GoodCfg EXCEPT !.remotePort = "5061"]}

InitWith(C, S) ==
    /\ build \in {"main", "part000"}
    /\ cfg \in C
    /\ sipPort = "5060"
    /\ srv \in S
    /\ conns = [c \in ConnIds |-> NoConn]
    /\ hs = [c \in ConnIds |-> NoHandler]
    /\ mainPc = "start"
    /\ lnPc = "off"
    /\ backlog = <<>>
    /\ lnConn = 0
    /\ line = ""
    /\ reqConn = 0
    /\ reqWrites = <<>>

Init == InitWith(Cfgs, {"start"})

----------------------------------------------------------------------------
(* The Responder: main in listen mode and startSIPServer *)

\* main with -l, then net.Listen in startSIPServer.
SStart(ok) ==
    /\ srv = "start"
    /\ srv' = IF sipPort = "" THEN "usage"
              ELSE IF ok THEN "listening" ELSE "exit1"
    /\ UNCHANGED <<build, sipPort, cfg, conns, hs, mainPc, lnPc, backlog,
                   lnConn, line, reqConn, reqWrites>>

\* One turn of the accept loop: l.Accept() returns the oldest established
\* connection and the handler goroutine is started on it.
SAccept ==
    /\ srv = "listening"
    /\ \E h \in ConnIds :
         /\ conns[h].from # "none"
         /\ hs[h].pc = "idle"
         /\ \A g \in ConnIds : (conns[g].from # "none" /\ hs[g].pc = "idle") => h <= g
         /\ hs' = [hs EXCEPT ![h].pc = "ReadingMessage", ![h].open = TRUE]
    /\ UNCHANGED <<build, sipPort, cfg, srv, conns, mainPc, lnPc, backlog,
                   lnConn, line, reqConn, reqWrites>>

----------------------------------------------------------------------------
(* The handler goroutine *)

\* A variant that closes the inbound connection only.
Return_InboundOnly(h, r, pc) ==
    [r EXCEPT !.pc = pc, !.open = FALSE]

\* The handler returns: the deferred Close calls run.
Return(h, r, pc) ==
    [r EXCEPT !.pc = pc, !.open = FALSE,
              !.c2 = IF r.c2 = "open" THEN "closed" ELSE r.c2]

\* The read loop, from one blocking Read to the next: a chunk arrives and the
\* loop takes its bytes one by one until it breaks or has to wait again.
HRead(h, w) ==
    /\ srv = "listening"
    /\ hs[h].pc = "ReadingMessage"
    /\ \E n \in Cuts(conns[h].stream, Len(hs[h].data), w) :
         LET r == ReadLoop(hs[h].data,
                           SubSeq(conns[h].stream, Len(hs[h].data) + 1, n))
         IN hs' = [hs EXCEPT ![h].data = r.data,
                             ![h].split = r.brk /\ Len(hs[h].data) > Len(r.data) - 4,
                             ![h].framed = r.brk,
                             ![h].pc = IF r.brk THEN "Extracting"
                                       ELSE "ReadingMessage"]
    /\ UNCHANGED <<build, sipPort, cfg, srv, conns, mainPc, lnPc, backlog,
                   lnConn, line, reqConn, reqWrites>>

\* conn.Read fails: the peer is gone and nothing is left to read.
HReadErr(h) ==
    /\ srv = "listening"
    /\ hs[h].pc = "ReadingMessage"
    /\ conns[h].closed
    /\ Len(hs[h].data) = Len(conns[h].stream)
    /\ hs' = [hs EXCEPT ![h] = Return(h, hs[h], "Failed")]
    /\ UNCHANGED <<build, sipPort, cfg, srv, conns, mainPc, lnPc, backlog,
                   lnConn, line, reqConn, reqWrites>>

\* A variant without the check of via.
AfterExtract_NoViaCheck(contact, via) ==
    IF Len(contact) < 1 THEN "Failed" ELSE "Responding"

\* A variant that gives up only when both headers are missing.
AfterExtract_BothMissing(contact, via) ==
    IF Len(contact) < 1 /\ Len(via) < 1 THEN "Failed" ELSE "Responding"

\* The pc a handler goes to after the two Find calls.
AfterExtract(contact, via) ==
    IF Len(contact) < 1 THEN "Failed"
    ELSE IF Len(via) < 1 THEN "Failed"
    ELSE "Responding"

HExtract(h) ==
    /\ srv = "listening"
    /\ hs[h].pc = "Extracting"
    /\ LET contact == extractContact(hs[h].data)
           via == IF Len(contact) < 1 THEN "" ELSE extractVia(hs[h].data)
           next == AfterExtract(contact, via)
       IN hs' = [hs EXCEPT ![h] =
                   IF next = "Responding"
                   THEN [hs[h] EXCEPT !.contact = contact, !.via = via,
                                      !.pc = next]
                   ELSE Return(h, [hs[h] EXCEPT !.contact = contact,
                                                !.via = via], next)]
    /\ UNCHANGED <<build, sipPort, cfg, srv, conns, mainPc, lnPc, backlog,
                   lnConn, line, reqConn, reqWrites>>

\* A variant that writes the status line and the rest separately.
ResponseWrites_Fragmented(buff) ==
    <<SubSeq(buff, 1, 16), SubSeq(buff, 17, Len(buff))>>

\* The write calls that send the rendered response buffer.
ResponseWrites(buff) == <<buff>>

\* The pc after conn.Write: main.go returns on an error, part_000 drops the
\* result of Write and goes on.
AfterRespond(b, ok) ==
    IF b = "main" /\ ~ok THEN "Failed" ELSE "CallingBack"

\* t.Execute into the buffer, then conn.Write(buff.Bytes()).
HRespond(h, ok) ==
    /\ srv = "listening"
    /\ hs[h].pc = "Responding"
    /\ LET buff == sipResponse(hs[h].via, hs[h].contact)
           r == [hs[h] EXCEPT !.writes = hs[h].writes \o ResponseWrites(buff),
                              !.werr = ~ok]
           next == AfterRespond(build, ok)
       IN hs' = [hs EXCEPT ![h] = IF next = "CallingBack"
                                  THEN [r EXCEPT !.pc = next]
                                  ELSE Return(h, r, next)]
    /\ UNCHANGED <<build, sipPort, cfg, srv, conns, mainPc, lnPc, backlog,
                   lnConn, line, reqConn, reqWrites>>

\* A variant that dials the whole match instead of the capture group.
connectBackHost_WholeMatch(h, matches) == matches[1]

\* The address handed to net.Dial: string(matches[1]), the capture group.
connectBackHost(h, matches) == matches[2]

\* FindSubmatch on the contact, then net.Dial.  A dial to the Initiator's
\* address succeeds exactly when its listening socket is open; any other
\* address answers as the environment decides (ok).  In part_000 a missing
\* match makes matches[1] panic and a failed dial leaves c2 nil, so that
\* defer c2.Close() panics: either way the process dies.
HCallBack(h, ok) ==
    /\ srv = "listening"
    /\ hs[h].pc = "CallingBack"
    /\ LET matches == extractCallback(hs[h].contact)
       IN IF Len(matches) < 2
          THEN /\ hs' = [hs EXCEPT ![h] =
                           Return(h, hs[h], IF build = "main" THEN "Failed"
                                            ELSE "Panicked")]
               /\ srv' = IF build = "main" THEN srv ELSE "crashed"
               /\ UNCHANGED backlog
          ELSE LET target == connectBackHost(h, matches)
                   up == IF target = InitiatorAddr THEN ListenerBound ELSE ok
                   r == [hs[h] EXCEPT !.dialed = TRUE, !.target = target]
               IN IF up
                  THEN /\ hs' = [hs EXCEPT ![h] = [r EXCEPT !.c2 = "open",
                                                            !.pc = "Greeting"]]
                       /\ backlog' = IF target = InitiatorAddr
                                     THEN Append(backlog, h) ELSE backlog
                       /\ UNCHANGED srv
                  ELSE /\ hs' = [hs EXCEPT ![h] =
                                   Return(h, [r EXCEPT !.c2 = "nil"],
                                          IF build = "main" THEN "Failed"
                                          ELSE "Panicked")]
                       /\ srv' = IF build = "main" THEN srv ELSE "crashed"
                       /\ UNCHANGED backlog
    /\ UNCHANGED <<build, sipPort, cfg, conns, mainPc, lnPc, lnConn, line,
                   reqConn, reqWrites>>

Greeting(b) == IF b = "main" THEN "hello from the internet!\n" ELSE "hello world!\n"

\* c2.Write of the fixed payload, then the handler returns.
HGreet(h, ok) ==
    /\ srv = "listening"
    /\ hs[h].pc = "Greeting"
    /\ hs' = [hs EXCEPT ![h] =
                Return(h, [hs[h] EXCEPT !.c2sent = IF ok THEN Greeting(build)
                                                   ELSE ""], "Done")]
    /\ UNCHANGED <<build, sipPort, cfg, srv, conns, mainPc, lnPc, backlog,
                   lnConn, line, reqConn, reqWrites>>

----------------------------------------------------------------------------
(* The Initiator: main without -l, setupListener, sendRequest *)

\* The process ends (os.Exit, log.Fatal, or main returning): its sockets are
\* closed by the system.
ClosedAtExit == IF reqConn = 0 THEN conns
                ELSE [conns EXCEPT ![reqConn].closed = TRUE]

\* A variant without the check of the host flag.
IStart_NoHostCheck ==
    /\ mainPc = "start"
    /\ IF cfg.localPort = "" \/ cfg.remotePort = "" \/ cfg.localIP = ""
       THEN mainPc' = "usage" /\ UNCHANGED lnPc
       ELSE mainPc' = "dial" /\ lnPc' = "listen"
    /\ UNCHANGED <<build, sipPort, cfg, srv, conns, hs, backlog, lnConn, line,
                   reqConn, reqWrites>>

\* The flag checks of main, then wg.Add(1) and go setupListener.
IStart ==
    /\ mainPc = "start"
    /\ IF cfg.localPort = "" \/ cfg.remotePort = "" \/ cfg.localIP = "" \/ cfg.host = ""
       THEN mainPc' = "usage" /\ UNCHANGED lnPc
       ELSE mainPc' = "dial" /\ lnPc' = "listen"
    /\ UNCHANGED <<build, sipPort, cfg, srv, conns, hs, backlog, lnConn, line,
                   reqConn, reqWrites>>

\* net.Listen in setupListener; log.Fatal on an error.
LListen(ok) ==
    /\ lnPc = "listen"
    /\ IF ok
       THEN lnPc' = "accept" /\ UNCHANGED <<mainPc, conns>>
       ELSE lnPc' = "killed" /\ mainPc' = "exit1" /\ conns' = ClosedAtExit
    /\ UNCHANGED <<build, sipPort, cfg, srv, hs, backlog, lnConn, line,
                   reqConn, reqWrites>>

\* A variant that accepts in a loop, as the Responder does.
LAccept_Loop(ok) ==
    /\ lnPc \in {"accept", "read"}
    /\ IF ok
       THEN /\ backlog # <<>>
            /\ lnConn' = Head(backlog)
            /\ backlog' = Tail(backlog)
            /\ lnPc' = "read"
            /\ UNCHANGED <<mainPc, conns>>
       ELSE /\ lnPc' = "killed"
            /\ mainPc' = "exit1"
            /\ conns' = ClosedAtExit
            /\ UNCHANGED <<lnConn, backlog>>
    /\ UNCHANGED <<build, sipPort, cfg, srv, hs, line, reqConn, reqWrites>>

\* ln.Accept() returns the oldest established connection, or an error, on
\* which log.Fatal ends the process.
LAccept(ok) ==
    /\ lnPc = "accept"
    /\ IF ok
       THEN /\ backlog # <<>>
            /\ lnConn' = Head(backlog)
            /\ backlog' = Tail(backlog)
            /\ lnPc' = "read"
            /\ UNCHANGED <<mainPc, conns>>
       ELSE /\ lnPc' = "killed"
            /\ mainPc' = "exit1"
            /\ conns' = ClosedAtExit
            /\ UNCHANGED <<lnConn, backlog>>
    /\ UNCHANGED <<build, sipPort, cfg, srv, hs, line, reqConn, reqWrites>>

\* reader.ReadString('\n'): the bytes up to and including the first newline,
\* or on end of stream what was received.
ReadString(sent) ==
    LET NLs == {i \in 1..Len(sent) : SubSeq(sent, i, i) = "\n"}
    IN IF NLs = {} THEN sent ELSE SubSeq(sent, 1, Min(NLs))

HasNewline(sent) == \E i \in 1..Len(sent) : SubSeq(sent, i, i) = "\n"

\* The read of one line, the print, and the return of setupListener
\* (wg.Done and the deferred Close calls).
LRead ==
    /\ lnPc = "read"
    /\ HasNewline(hs[lnConn].c2sent) \/ C2Closed(lnConn)
    /\ line' = ReadString(hs[lnConn].c2sent)
    /\ lnPc' = "done"
    /\ UNCHANGED <<build, sipPort, cfg, srv, conns, hs, mainPc, backlog, lnConn,
                   reqConn, reqWrites>>

\* net.Dial in sendRequest.  An error is returned to main, which calls
\* log.Fatal: the whole process exits, the listener goroutine with it.
ISendDial ==
    /\ mainPc = "dial"
    /\ IF cfg.host = ResponderHost /\ cfg.remotePort = sipPort /\ srv = "listening"
       THEN /\ FreeIds # {}
            /\ LET c == Min(FreeIds)
               IN /\ conns' = [conns EXCEPT ![c] = [NoConn EXCEPT !.from = "init"]]
                  /\ reqConn' = c
            /\ mainPc' = "write"
            /\ UNCHANGED lnPc
       ELSE /\ mainPc' = "fatal"
            /\ lnPc' = "killed"
            /\ UNCHANGED <<conns, reqConn>>
    /\ UNCHANGED <<build, sipPort, cfg, srv, hs, backlog, lnConn, line, reqWrites>>

\* The write calls that send the rendered request buffer.
RequestWrites(buff) == <<buff>>

\* t.Execute into the buffer and conn.Write(buff.Bytes()); sendRequest
\* returns and main goes on to wg.Wait(), or to log.Fatal on an error.
ISendWrite(ok) ==
    /\ mainPc = "write"
    /\ LET buff == sipRequest(cfg.localIP, cfg.localPort, cfg.remotePort)
       IN /\ reqWrites' = reqWrites \o RequestWrites(buff)
          /\ IF ok
             THEN /\ conns' = [conns EXCEPT ![reqConn].stream = buff]
                  /\ mainPc' = "wait"
                  /\ UNCHANGED lnPc
             ELSE /\ conns' = ClosedAtExit
                  /\ mainPc' = "fatal"
                  /\ lnPc' = "killed"
    /\ UNCHANGED <<build, sipPort, cfg, srv, hs, backlog, lnConn, line, reqConn>>

\* A variant in which main returns without waiting for the listener.
IWait_NoBarrier ==
    /\ mainPc = "wait"
    /\ mainPc' = "exit0"
    /\ lnPc' = IF lnPc = "done" THEN "done" ELSE "killed"
    /\ conns' = ClosedAtExit
    /\ UNCHANGED <<build, sipPort, cfg, srv, hs, backlog, lnConn, line,
                   reqConn, reqWrites>>

\* wg.Wait() returns once setupListener has called wg.Done; main returns.
IWait ==
    /\ mainPc = "wait"
    /\ lnPc = "done"
    /\ mainPc' = "exit0"
    /\ conns' = ClosedAtExit
    /\ UNCHANGED <<build, sipPort, cfg, srv, hs, lnPc, backlog, lnConn, line,
                   reqConn, reqWrites>>

----------------------------------------------------------------------------
(* Other clients of the Responder's port *)

CallbackStream(user, hostport, params) ==
    "Contact: <sip:" \o user \o "@" \o hostport \o ";" \o params \o ">\r\n" \o
    "Via: v\r\n\r\n"

ExtStreams ==
    { CallbackStream("u", "h:1", "p"),
      CallbackStream("u", "10.0.0.2:7001", "p"),
      "Via: v\r\nContact: c\r\n\r\n",
      "Via: v\r\n\r\n",
      "Contact: c@x\r\n\r\n",
      "Via:\r\nContact:\r\n\r\n",
      "Via: v\r\nContact: c@x",
      "\r\n\r\nVia: v",
      "Via: a\nContact: b@c\n\r\n\r\nxy" }

\* One of at most k clients connects to the Responder, sends a stream of S
\* and shuts down its side.
ExtConnect(S, k) ==
    /\ srv = "listening"
    /\ FreeIds # {}
    /\ Cardinality({c \in ConnIds : conns[c].from = "ext"}) < k
    /\ \E s \in S :
         conns' = [conns EXCEPT ![Min(FreeIds)] =
                     [from |-> "ext", stream |-> s, closed |-> TRUE]]
    /\ UNCHANGED <<build, sipPort, cfg, srv, hs, mainPc, lnPc, backlog, lnConn,
                   line, reqConn, reqWrites>>

----------------------------------------------------------------------------
(* Specifications *)

Next ==
    \/ \E ok \in BOOLEAN : SStart(ok)
    \/ SAccept
    \/ \E h \in ConnIds : HRead(h, CutWindow)
    \/ \E h \in ConnIds : HReadErr(h)
    \/ \E h \in ConnIds : HExtract(h)
    \/ \E h \in ConnIds, ok \in BOOLEAN : HRespond(h, ok)
    \/ \E h \in ConnIds, ok \in BOOLEAN : HCallBack(h, ok)
    \/ \E h \in ConnIds, ok \in BOOLEAN : HGreet(h, ok)
    \/ IStart
    \/ \E ok \in BOOLEAN : LListen(ok)
    \/ \E ok \in BOOLEAN : LAccept(ok)
    \/ LRead
    \/ ISendDial
    \/ \E ok \in BOOLEAN : ISendWrite(ok)
    \/ IWait
    \/ ExtConnect(ExtStreams, MaxExt)

Spec == Init /\ [][Next]_vars

\* The end-to-end scenario: the Responder is listening on the port the
\* Initiator dials, the transport loses nothing and no call fails for a
\* reason outside the two programs; every goroutine that can run does.
LiveCfgs ==
    {[GoodCfg EXCEPT !.localIP = ip, !.localPort = lp] :
        ip \in {"10.0.0.2", "127.0.0.1"}, lp \in {"7001", "7002"}}

InitLive == InitWith(LiveCfgs, {"listening"})

InitiatorMain == IStart \/ ISendDial \/ ISendWrite(TRUE) \/ IWait

InitiatorListener == LListen(TRUE) \/ LAccept(TRUE) \/ LRead

ResponderStep(h) ==
    \/ HRead(h, CutWindow)
    \/ HExtract(h)
    \/ HRespond(h, TRUE)
    \/ HCallBack(h, TRUE)
    \/ HGreet(h, TRUE)

NextLive ==
    \/ InitiatorMain
    \/ InitiatorListener
    \/ SAccept
    \/ \E h \in ConnIds : ResponderStep(h)

LiveSpec ==
    /\ InitLive
    /\ [][NextLive]_vars
    /\ WF_vars(InitiatorMain)
    /\ WF_vars(InitiatorListener)
    /\ WF_vars(SAccept)
    /\ \A h \in ConnIds : WF_vars(ResponderStep(h))

\* Framing concerns one connection: a single client sends an arbitrary short
\* stream over CR, LF and one other byte, delivered in every chunking.
FrameBytes == {"\r", "\n", "x"}

RECURSIVE StreamsUpTo(_)
StreamsUpTo(n) ==
    IF n = 0 THEN {""}
    ELSE LET P == StreamsUpTo(n - 1)
         IN P \cup {s \o b : s \in P, b \in FrameBytes}

FrameStreams == StreamsUpTo(MaxFrameLen)

InitFrame == InitWith({GoodCfg}, {"listening"})

NextFrame ==
    \/ ExtConnect(FrameStreams, 1)
    \/ SAccept
    \/ \E h \in ConnIds : HRead(h, MaxFrameLen)
    \/ \E h \in ConnIds : HReadErr(h)
    \/ \E h \in ConnIds : HExtract(h)

SpecFrame == InitFrame /\ [][NextFrame]_vars

\* Callback extraction concerns one connection: a single client sends a
\* REGISTER whose Contact has the shape <sip:user@HOST:PORT;params>.
Users == {"u", "", "wuzzi;x"}

HostPorts == {"h:1", "10.0.0.2:7001", "a@b:2", "h", ":", "x\ny:3", "<h>:4"}

Params == {"p", "", "a;b=@c"}

CallbackStreams ==
    {CallbackStream(u, hp, p) : u \in Users, hp \in HostPorts, p \in Params}

InitCallback == InitWith({GoodCfg}, {"listening"})

NextCallback ==
    \/ ExtConnect(CallbackStreams, 1)
    \/ SAccept
    \/ \E h \in ConnIds : HRead(h, CutWindow)
    \/ \E h \in ConnIds : HExtract(h)
    \/ \E h \in ConnIds, ok \in BOOLEAN : HRespond(h, ok)
    \/ \E h \in ConnIds, ok \in BOOLEAN : HCallBack(h, ok)
    \/ \E h \in ConnIds, ok \in BOOLEAN : HGreet(h, ok)

SpecCallback == InitCallback /\ [][NextCallback]_vars

\* Rendering: the Initiator is started with arbitrary -ip and -lp strings
\* and the Responder reads what it sends.
WideCfgs ==
    {[GoodCfg EXCEPT !.localIP = ip, !.localPort = lp] :
        ip \in {"10.0.0.2", "a;b", "Contact", "x@y", "Via:"},
        lp \in {"7001", "7;1", "@"}}

InitRender == InitWith(WideCfgs, {"listening"})

NextRender ==
    \/ IStart
    \/ \E ok \in BOOLEAN : LListen(ok)
    \/ \E ok \in BOOLEAN : LAccept(ok)
    \/ LRead
    \/ ISendDial
    \/ \E ok \in BOOLEAN : ISendWrite(ok)
    \/ IWait
    \/ SAccept
    \/ \E h \in ConnIds : HRead(h, CutWindow)
    \/ \E h \in ConnIds : HReadErr(h)
    \/ \E h \in ConnIds : HExtract(h)
    \/ \E h \in ConnIds, ok \in BOOLEAN : HRespond(h, ok)
    \/ \E h \in ConnIds, ok \in BOOLEAN : HCallBack(h, ok)
    \/ \E h \in ConnIds, ok \in BOOLEAN : HGreet(h, ok)

SpecRender == InitRender /\ [][NextRender]_vars

\* Configuration: both programs are started with every combination of
\* present and missing flags.
FlagCfgs ==
    [host : {"", ResponderHost}, localIP : {"", "10.0.0.2"},
     localPort : {"", "7001"}, remotePort : {"", "5060"}]

InitConfig ==
    /\ build \in {"main", "part000"}
    /\ cfg \in FlagCfgs
    /\ sipPort \in {"", "5060"}
    /\ srv = "start"
    /\ conns = [c \in ConnIds |-> NoConn]
    /\ hs = [c \in ConnIds |-> NoHandler]
    /\ mainPc = "start"
    /\ lnPc = "off"
    /\ backlog = <<>>
    /\ lnConn = 0
    /\ line = ""
    /\ reqConn = 0
    /\ reqWrites = <<>>

NextConfig ==
    \/ \E ok \in BOOLEAN : SStart(ok)
    \/ NextRender

SpecConfig == InitConfig /\ [][NextConfig]_vars

TypeOK ==
    /\ build \in {"main", "part000"}
    /\ srv \in {"start", "listening", "exit1", "crashed", "usage"}
    /\ mainPc \in {"start", "dial", "write", "wait", "exit0", "exit1", "fatal",
                   "usage"}
    /\ lnPc \in {"off", "listen", "accept", "read", "done", "killed"}
    /\ \A h \in ConnIds :
         hs[h].pc \in {"idle", "ReadingMessage", "Extracting", "Responding",
                       "CallingBack", "Greeting", "Done", "Failed", "Panicked"}

----------------------------------------------------------------------------
(* Properties *)

\* The handlers serving a connection that sendRequest dialed.
InitiatorHandlers == {h \in ConnIds : conns[h].from = "init"}

\* C1: in every interleaving, the Initiator's listening socket is bound
\* before the callback dial that its REGISTER triggers reaches it: the handler
\* serving the Initiator's REGISTER never has its dial to the Initiator's
\* address refused.
C1_ListenerArmedBeforeCallback ==
    \A h \in InitiatorHandlers :
        (hs[h].dialed /\ hs[h].target = InitiatorAddr) => hs[h].c2 # "nil"

\* C2: with the Responder listening, a reliable transport and fair
\* scheduling, the Initiator's listener eventually accepts a connection,
\* reads the greeting line, and the Initiator process terminates.
C2_EndToEndLiveness ==
    <>(lnConn # 0 /\ line = Greeting(build) /\ mainPc = "exit0")

\* The last four bytes of d are CR LF CR LF.
EndsWithBlankLine(d) ==
    Len(d) >= 4 /\ SubSeq(d, Len(d) - 3, Len(d)) = "\r\n\r\n"

\* C3: within one handler the steps run in the order Read, Extract, Respond,
\* CallBack: headers are extracted only from a terminated buffer, the 200 OK
\* is written only after the terminator was received and both Via and
\* Contact were extracted, and the callback is dialed only after the write of
\* the 200 OK was issued.
C3_HandlerOrder ==
    \A h \in ConnIds :
        /\ (hs[h].contact # "" \/ hs[h].via # "") =>
               (hs[h].framed /\ EndsWithBlankLine(hs[h].data))
        /\ hs[h].writes # <<>> =>
               (hs[h].framed /\ hs[h].via # "" /\ hs[h].contact # "")
        /\ hs[h].dialed => hs[h].writes # <<>>
        /\ hs[h].c2sent # "" => hs[h].dialed

C3_Witness ==
    \E h \in ConnIds :
        hs[h].pc = "Done" /\ hs[h].writes # <<>> /\ hs[h].dialed /\ hs[h].c2sent # ""

\* The lengths at which a prefix of stream s ends with CR LF CR LF.
TerminatorEnds(s) == {n \in 4..Len(s) : SubSeq(s, n - 3, n) = "\r\n\r\n"}

\* C4: whatever the chunking, the read phase ends exactly when the bytes
\* accumulated end with CR LF CR LF for the first time: the buffer is always
\* a prefix of the stream, while reading it is shorter than the first
\* terminator, and once the phase has ended it is the prefix up to and
\* including the first terminator, with no byte after it consumed.
C4_FrameTermination ==
    \A h \in ConnIds :
        LET s == conns[h].stream
            d == hs[h].data
        IN /\ Len(d) <= Len(s)
           /\ d = SubSeq(s, 1, Len(d))
           /\ ~hs[h].framed => \A n \in TerminatorEnds(s) : Len(d) < n
           /\ hs[h].framed => /\ TerminatorEnds(s) # {}
                              /\ Len(d) = Min(TerminatorEnds(s))
           /\ hs[h].framed <=> hs[h].pc \notin {"idle", "ReadingMessage", "Failed"}
                               \/ (hs[h].pc = "Failed" /\ EndsWithBlankLine(d))

\* The terminator arrived split across two deliveries, and bytes follow it.
C4_Witness ==
    \E h \in ConnIds :
        /\ hs[h].framed
        /\ Len(hs[h].data) > 4
        /\ hs[h].split
        /\ Len(conns[h].stream) > Len(hs[h].data)

\* Tok followed by a byte other than CR occurs in data.
HasHeader(tok, data) ==
    \E i \in 1..Len(data) :
        /\ i + Len(tok) <= Len(data)
        /\ SubSeq(data, i, i + Len(tok) - 1) = tok
        /\ SubSeq(data, i + Len(tok), i + Len(tok)) # "\r"

MissingHeader(data) == ~HasHeader("Via:", data) \/ ~HasHeader("Contact:", data)

\* C5: if the framed message has no Via: match or no Contact: match, the
\* handler writes nothing on the inbound connection, dials no callback, and
\* ends with the inbound connection closed.
C5_ExtractionFailure ==
    \A h \in ConnIds :
        (hs[h].framed /\ MissingHeader(hs[h].data)) =>
            /\ hs[h].writes = <<>>
            /\ ~hs[h].dialed
            /\ hs[h].c2 = "none"
            /\ hs[h].pc # "Extracting" => (hs[h].pc = "Failed" /\ ~hs[h].open)

C5_Witness ==
    \E h \in ConnIds :
        /\ hs[h].framed
        /\ HasHeader("Contact:", hs[h].data)
        /\ ~HasHeader("Via:", hs[h].data)
        /\ hs[h].pc = "Failed"

\* A complete rendered message: it starts with the given first line and its
\* last four bytes are the blank-line terminator.
WholeMessage(w, first) ==
    /\ Len(w) > Len(first)
    /\ SubSeq(w, 1, Len(first)) = first
    /\ EndsWithBlankLine(w)

\* C6: each rendered message is handed to the transport whole in one write
\* call: a handler issues at most one write on its inbound connection,
\* exactly one once it has responded, and that write is the complete 200 OK;
\* sendRequest issues at most one write, exactly one once it has returned
\* without error, and that write is the complete REGISTER.
C6_SingleWrite ==
    /\ \A h \in ConnIds :
          /\ Len(hs[h].writes) <= 1
          /\ hs[h].pc \in {"CallingBack", "Greeting", "Done", "Panicked"} =>
                 Len(hs[h].writes) = 1
          /\ \A i \in 1..Len(hs[h].writes) :
                 WholeMessage(hs[h].writes[i], "SIP/2.0 200 OK\r\n")
    /\ Len(reqWrites) <= 1
    /\ mainPc \in {"wait", "exit0"} => Len(reqWrites) = 1
    /\ \A i \in 1..Len(reqWrites) :
          WholeMessage(reqWrites[i], "REGISTER sip:example.org;transport=TCP SIP/2.0\r\n")

C6_Witness ==
    /\ Len(reqWrites) = 1
    /\ \E h \in InitiatorHandlers : Len(hs[h].writes) = 1 /\ hs[h].pc = "Done"

\* C7: a failure in one handler (read error, missing Via or Contact, a
\* Contact with no callback address, callback dial or write failure) ends
\* that handler only: whenever a handler has failed, the Responder process
\* is still running its accept loop.
C7_FailureIsolation ==
    \A h \in ConnIds :
        hs[h].pc \in {"Failed", "Panicked"} => srv = "listening"

\* C8: for a Contact header of the form Contact: <sip:user@HOST:PORT;params>
\* with HOST:PORT non-empty and free of ';', extractCallback returns exactly
\* HOST:PORT, the handler gets as far as dialing, and the address it dials
\* is that string.
C8_CallbackExtraction ==
    \A h \in ConnIds : \A u \in Users, hp \in HostPorts, p \in Params :
        conns[h].stream = CallbackStream(u, hp, p) =>
            /\ hs[h].contact # "" =>
                   /\ hs[h].contact = "Contact: <sip:" \o u \o "@" \o hp \o ";" \o p \o ">"
                   /\ extractCallback(hs[h].contact) = <<"@" \o hp, hp>>
            /\ hs[h].pc \in {"Greeting", "Done", "Panicked"} => hs[h].dialed
            /\ hs[h].dialed => hs[h].target = hp

\* The dial went to an address that holds an '@' and is not the peer address
\* of the inbound connection.
C8_Witness ==
    \E h \in ConnIds :
        /\ conns[h].stream = CallbackStream("wuzzi;x", "a@b:2", "a;b=@c")
        /\ hs[h].dialed
        /\ hs[h].target = "a@b:2"
        /\ hs[h].target # RemoteAddr(h)

\* The k-th line of w, lines being ended by CR LF.
Line(w, k) ==
    LET Ends == {i \in 1..(Len(w) - 1) : SubSeq(w, i, i + 1) = "\r\n"}
        Before(i) == Cardinality({j \in Ends : j < i})
        e == CHOOSE i \in Ends : Before(i) = k - 1
        b == IF k = 1 THEN 1 ELSE (CHOOSE i \in Ends : Before(i) = k - 2) + 2
    IN SubSeq(w, b, e - 1)

\* header occurs in data as a match of Tok[^\r]+: it starts with tok, holds
\* no CR, and is followed by CR or by the end of data.
IsHeaderOf(header, tok, data) ==
    /\ Len(header) > Len(tok)
    /\ SubSeq(header, 1, Len(tok)) = tok
    /\ \A i \in 1..Len(header) : SubSeq(header, i, i) # "\r"
    /\ \E i \in 1..(Len(data) - Len(header) + 1) :
          /\ SubSeq(data, i, i + Len(header) - 1) = header
          /\ i + Len(header) <= Len(data) =>
                 SubSeq(data, i + Len(header), i + Len(header)) = "\r"

\* C9: whenever the Responder writes a 200 OK, its second line is the Via
\* header found in the received request followed by ;received=0.0.0.0 and
\* its seventh line is the Contact header found there followed by
\* ;expires=3600; for the Initiator's REGISTER these are the Via and Contact
\* lines the Initiator sent.
C9_ResponseEcho ==
    \A h \in ConnIds : \A i \in 1..Len(hs[h].writes) :
        LET w == hs[h].writes[i]
        IN /\ Line(w, 1) = "SIP/2.0 200 OK"
           /\ Line(w, 2) = hs[h].via \o ";received=0.0.0.0"
           /\ Line(w, 7) = hs[h].contact \o ";expires=3600"
           /\ IsHeaderOf(hs[h].via, "Via:", hs[h].data)
           /\ IsHeaderOf(hs[h].contact, "Contact:", hs[h].data)
           /\ h \in InitiatorHandlers =>
                 /\ Line(w, 2) = Line(reqWrites[1], 2) \o ";received=0.0.0.0"
                 /\ Line(w, 7) = Line(reqWrites[1], 4) \o ";expires=3600"

C9_Witness ==
    /\ \E h \in InitiatorHandlers : hs[h].writes # <<>>
    /\ \E h \in ConnIds \ InitiatorHandlers : hs[h].writes # <<>>

Contains(s, t) ==
    \E i \in 1..(Len(s) - Len(t) + 1) : SubSeq(s, i, i + Len(t) - 1) = t

\* The handler of the Initiator's REGISTER has run the two header extractors.
Extracted(h) == hs[h].framed /\ hs[h].pc # "Extracting"

\* C10 as stated: for all localIP, localPort, remotePort without CR or LF,
\* the extractors return from the rendered REGISTER exactly its Via line and
\* its Contact line, and extractCallback on that Contact returns
\* localIP:localPort.
C10_RoundTripAll ==
    \A h \in InitiatorHandlers :
        Extracted(h) =>
            /\ hs[h].via = Line(conns[h].stream, 2)
            /\ hs[h].contact = Line(conns[h].stream, 4)
            /\ extractCallback(hs[h].contact) =
                   <<"@" \o InitiatorAddr, InitiatorAddr>>

\* C10 amended: the Via line is always recovered; the Contact line is
\* recovered when "Contact:" does not occur in localIP:remotePort; and the
\* callback is localIP:localPort when moreover neither localIP nor localPort
\* holds a ';'.
C10_RoundTrip ==
    \A h \in InitiatorHandlers :
        Extracted(h) =>
            LET viaOk == hs[h].via = Line(conns[h].stream, 2)
                noContact == ~Contains(cfg.localIP \o ":" \o cfg.remotePort, "Contact:")
                noSemi == ~Contains(cfg.localIP, ";") /\ ~Contains(cfg.localPort, ";")
            IN /\ viaOk
               /\ Contains(hs[h].via, cfg.localIP \o ":" \o cfg.remotePort)
               /\ noContact =>
                     /\ hs[h].contact = Line(conns[h].stream, 4)
                     /\ Contains(hs[h].contact, InitiatorAddr)
               /\ (noContact /\ noSemi) =>
                     extractCallback(hs[h].contact) =
                         <<"@" \o InitiatorAddr, InitiatorAddr>>

C10_Witness ==
    \E h \in InitiatorHandlers :
        /\ Extracted(h)
        /\ cfg.localIP = "x@y"
        /\ cfg.localPort = "@"
        /\ hs[h].dialed
        /\ hs[h].target = InitiatorAddr

\* The handler goroutine has exited.
Exited(h) == hs[h].pc \in {"Done", "Failed", "Panicked"}

\* C11: on every exit path of a handler (success, read error, extraction
\* failure, write error, no callback address, callback dial failure) the
\* inbound connection is closed when the handler exits, and so is the
\* outbound callback connection if one was opened: no exited handler holds
\* an open connection, and a connection is open only in the steps that use it.
C11_ConnectionRelease ==
    \A h \in ConnIds :
        /\ Exited(h) => (~hs[h].open /\ hs[h].c2 # "open")
        /\ hs[h].open => hs[h].pc \in {"ReadingMessage", "Extracting", "Responding",
                                       "CallingBack", "Greeting"}
        /\ hs[h].c2 = "open" => hs[h].pc = "Greeting"

\* Every exit path has been taken by a handler that closed what it held: a
\* success with both connections closed, and a failed callback dial.
C11_Witness ==
    /\ \E h \in ConnIds :
          hs[h].pc = "Done" /\ ~hs[h].open /\ hs[h].c2 = "closed"
    /\ \E h \in ConnIds :
          Exited(h) /\ hs[h].dialed /\ hs[h].c2 = "nil" /\ ~hs[h].open

\* C12: when sendRequest succeeded, the Initiator does not exit until
\* setupListener has finished: in every state where the Initiator has exited
\* normally, its request was written, and its listener has accepted one
\* connection, has made its read of one line and has returned.
C12_CompletionBarrier ==
    mainPc = "exit0" =>
        /\ Len(reqWrites) = 1
        /\ lnPc = "done"
        /\ lnConn # 0
        /\ hs[lnConn].dialed /\ hs[lnConn].target = InitiatorAddr
        /\ line = ReadString(hs[lnConn].c2sent)

\* The Initiator has exited normally after its read ended without a line.
C12_Witness ==
    mainPc = "exit0" /\ lnConn # 0 /\ line = ""

\* C13: when sendRequest fails (dial, render or write error), the listener
\* goroutine is not cancelled or aborted: it stays armed and keeps waiting
\* for its connection.
C13_ListenerSurvivesRequestFailure ==
    mainPc = "fatal" => lnPc \in {"listen", "accept", "read", "done"}

\* The handler will take no further step: it has exited, or the process it
\* ran in has died.
Stopped(h) == hs[h].pc # "idle" /\ (Exited(h) \/ srv = "crashed")

\* What a handler that received the bytes d writes on its inbound connection.
ExpectedWrites(d) ==
    IF EndsWithBlankLine(d) /\ HasHeader("Contact:", d) /\ HasHeader("Via:", d)
    THEN <<sipResponse(extractVia(d), extractContact(d))>>
    ELSE <<>>

\* The address a handler of build b dials, given the bytes d it received and
\* the result of its own write; "" if it dials none.
ExpectedDial(b, d, werr) ==
    IF ExpectedWrites(d) = <<>> THEN ""
    ELSE IF b = "main" /\ werr THEN ""
    ELSE IF extractCallback(extractContact(d)) = <<>> THEN ""
    ELSE extractCallback(extractContact(d))[2]

\* The state it ends in, given also the result of its own dial.
ExpectedEnd(b, d, werr, refused) ==
    LET failed == IF b = "main" THEN "Failed" ELSE "Panicked"
    IN IF ExpectedWrites(d) = <<>> THEN "Failed"
       ELSE IF b = "main" /\ werr THEN "Failed"
       ELSE IF ExpectedDial(b, d, werr) = "" THEN failed
       ELSE IF refused THEN failed
       ELSE "Done"

\* C14: whatever the interleaving of the handlers, the outcome of each one
\* (the bytes it wrote on its inbound connection, the address it dialed, its
\* final state) is determined by the bytes it received on its own connection
\* and the results of its own calls: a handler that will take no further
\* step has written, dialed and ended as its own bytes prescribe.
C14_HandlerIndependence ==
    \A h \in ConnIds :
        Stopped(h) =>
            LET d == hs[h].data
            IN /\ hs[h].writes = ExpectedWrites(d)
               /\ hs[h].dialed <=> ExpectedDial(build, d, hs[h].werr) # ""
               /\ hs[h].dialed => hs[h].target = ExpectedDial(build, d, hs[h].werr)
               /\ hs[h].pc = ExpectedEnd(build, d, hs[h].werr, hs[h].c2 = "nil")

\* The same statement for the handlers of a process that is still running.
C14_WhileRunning == srv # "crashed" => C14_HandlerIndependence

\* A flag the Initiator requires is missing.
MissingFlag ==
    cfg.localPort = "" \/ cfg.remotePort = "" \/ cfg.localIP = "" \/ cfg.host = ""

\* C15: a missing required flag ends the process with status 1 before any
\* networking: a Responder without -lp never listens and never accepts, and
\* an Initiator without -lp, -rp, -ip or -host never starts its listener and
\* never dials; the only step either takes is the exit after the usage text.
C15_ConfigBeforeNetwork ==
    /\ sipPort = "" =>
          /\ srv \in {"start", "usage"}
          /\ \A h \in ConnIds : hs[h].pc = "idle"
    /\ srv = "usage" => sipPort = ""
    /\ MissingFlag =>
          /\ mainPc \in {"start", "usage"}
          /\ lnPc = "off"
          /\ lnConn = 0 /\ backlog = <<>>
          /\ reqConn = 0 /\ reqWrites = <<>>
          /\ InitiatorHandlers = {}
    /\ mainPc = "usage" => MissingFlag

\* Both programs have exited on a missing flag, the Initiator on the last
\* flag that main checks.
C15_Witness ==
    /\ srv = "usage"
    /\ mainPc = "usage"
    /\ cfg.host = "" /\ cfg.localPort # "" /\ cfg.remotePort # "" /\ cfg.localIP # ""

\* C16: Failed is absorbing.  A handler whose read failed before the
\* terminator, whose message lacks Via or Contact, or whose write of the
\* 200 OK failed, performs no further protocol action: nothing is written on
\* the inbound connection after the failure and no callback is dialed.
C16_FailedAbsorbing ==
    \A h \in ConnIds :
        /\ (hs[h].pc = "Failed" /\ ~hs[h].framed) =>
               (hs[h].writes = <<>> /\ ~hs[h].dialed)
        /\ (hs[h].framed /\ MissingHeader(hs[h].data)) =>
               (hs[h].writes = <<>> /\ ~hs[h].dialed)
        /\ hs[h].werr =>
               (Len(hs[h].writes) = 1 /\ ~hs[h].dialed /\ hs[h].c2 = "none")

\* The same statement for the handler of src/main.go alone.
C16_InMain == build = "main" => C16_FailedAbsorbing

\* The byte b does not occur in s.
Free(s, b) == \A i \in 1..Len(s) : SubSeq(s, i, i) # b

\* C17: a Via or Contact value returned by the header extractor, and so
\* substituted into the 200 OK, holds neither a CR nor an LF byte: each
\* extracted header is exactly one protocol line.
C17_HeaderOneLine ==
    \A h \in ConnIds :
        /\ Free(hs[h].via, "\r") /\ Free(hs[h].via, "\n")
        /\ Free(hs[h].contact, "\r") /\ Free(hs[h].contact, "\n")

\* The part of it that concerns CR.
C17_NoCR ==
    \A h \in ConnIds : Free(hs[h].via, "\r") /\ Free(hs[h].contact, "\r")

\* C18: setupListener accepts exactly one connection over its whole run and
\* reads at most one line from it.  The accepted connection is set once, by
\* the step from accepting to reading, and never changes after that; no
\* connection leaves the backlog once one was accepted, so a second callback
\* connection is never accepted; the line is set once, by the step that ends
\* the activity.
C18_SingleAccept ==
    [][ /\ lnConn' # lnConn =>
              (lnConn = 0 /\ lnPc = "accept" /\ lnPc' = "read"
                 /\ lnConn' = Head(backlog))
        /\ lnConn # 0 => (lnConn' = lnConn /\ Len(backlog') >= Len(backlog))
        /\ line' # line => (line = "" /\ lnPc = "read" /\ lnPc' = "done")
        /\ lnPc = "read" => lnPc' \in {"read", "done", "killed"}
        /\ lnPc = "done" => lnPc' \in {"done", "killed"} ]_vars

\* The listener has returned after its one line while a second callback
\* connection, from another handler, is left unaccepted.
C18_Witness ==
    /\ lnPc = "done"
    /\ lnConn # 0
    /\ line = Greeting(build)
    /\ backlog # <<>>
    /\ \A i \in 1..Len(backlog) : backlog[i] # lnConn

\* C19: sendRequest releases the connection it dialed on every exit path:
\* once it has returned, after a successful write or after an error, the
\* connection to the Responder is closed.
C19_RequestConnClosed ==
    (reqConn # 0 /\ mainPc \in {"wait", "exit0", "fatal"}) => conns[reqConn].closed

\* C20: every 200 OK the Responder writes is framed under the Responder's
\* own rule: CR LF CR LF occurs in it exactly once, as its last four bytes,
\* whatever the request was.
C20_ResponseFramed ==
    \A h \in ConnIds : \A i \in 1..Len(hs[h].writes) :
        TerminatorEnds(hs[h].writes[i]) = {Len(hs[h].writes[i])}

\* A 200 OK was written whose substituted Via holds a line feed.
C20_Witness ==
    \E h \in ConnIds :
        /\ Len(hs[h].writes) = 1
        /\ ~Free(hs[h].via, "\n")
        /\ Contains(hs[h].writes[1], hs[h].via \o ";received=0.0.0.0\r\n")

====
